---- MODULE Spec2Model ----
(***************************************************************************)
(* Anime Opener server (src/unnamed/part_001): the POST /api/generate      *)
(* orchestration chain, the in-memory task registry and the                *)
(* GET /api/status/:taskId handler, against a provider whose answers are    *)
(* chosen nondeterministically.                                            *)
(*                                                                         *)
(* JavaScript values are records [t, v]: t is the JS type, v the text of   *)
(* the value.  Handlers are split at their awaits, so that requests        *)
(* interleave the way they do on the Node event loop.                      *)
(***************************************************************************)
EXTENDS Integers, Sequences, FiniteSets, TLC

VARIABLES
  apiKey,      \* MINIMAX_API_KEY is a non-empty string
  tasks,       \* the Map `tasks`: key (a JS value) -> reference to a task object
  heap,        \* the task objects, by reference
  gen,         \* the POST /api/generate handler in flight: its position and locals
  genRes,      \* the answer of the last POST /api/generate
  calls,       \* provider requests issued by the current POST /api/generate, in order
  genCount,    \* number of POST /api/generate requests received
  st,          \* the GET /api/status handlers in flight, one per connection
  statusRes,   \* the last GET /api/status answered: its task id, the status the
               \* task had, the provider's answer, the response
  statusCount, \* number of GET /api/status requests received
  cl           \* the browser client (src/unnamed/part_000): the App component's
               \* state and the position of its handleGenerate run

vars == <<apiKey, tasks, heap, gen, genRes, calls, genCount, st, statusRes, statusCount, cl>>

(* ------------------------------- bounds -------------------------------- *)
\* POST /api/generate requests and GET /api/status requests per behaviour
MaxGenerates == 1
MaxStatus == 2

(* --------------------------- JavaScript values ------------------------- *)
Undef == [t |-> "undefined", v |-> ""]
Null == [t |-> "null", v |-> ""]
Str(s) == [t |-> "string", v |-> s]
Num(s) == [t |-> "number", v |-> s]
Obj(s) == [t |-> "object", v |-> s]

\* ToBoolean
Truthy(x) ==
  ~ \/ x.t \in {"undefined", "null"}
    \/ x.t = "string" /\ x.v = ""
    \/ x.t = "number" /\ x.v = "0"

\* a || b
Or(a, b) == IF Truthy(a) THEN a ELSE b

(* ------------------------------ inputs --------------------------------- *)
Themes == {Str("epic")}
\* req.file: no upload, an upload of 200 kB, an upload over the size limit
Files == {Undef, Obj("upload"), Obj("big")}
ErrorMessages == {"Network Error", "Request failed with status code 500"}

\* an awaited provider call that rejected
Failed(m) == [ok |-> FALSE, message |-> m]
Failures == {Failed(m) : m \in ErrorMessages}

\* answers of POST /image_generation: with a task id (under one name or the
\* other) or without, with a direct URL (in one place or the other) or without
ImageResult(id, task_id, data_image_url, image_image_url) ==
  [ok |-> TRUE, id |-> id, task_id |-> task_id,
   data_image_url |-> data_image_url, image_image_url |-> image_image_url]
ImageResults ==
  {ImageResult(Str("img1"), Str("img2"), Str("urlA"), Str("urlB")),
   ImageResult(Undef, Str("img1"), Undef, Str("urlA")),
   ImageResult(Str("img1"), Undef, Undef, Undef),
   ImageResult(Undef, Undef, Str("urlA"), Undef),
   ImageResult(Undef, Undef, Undef, Undef)}

\* answers of GET /query/image_generation
ImageStatusResult(status, image_image_url, data_image_url) ==
  [ok |-> TRUE, status |-> status, image_image_url |-> image_image_url,
   data_image_url |-> data_image_url]
ImageStatusResults ==
  {ImageStatusResult("success", Str("urlC"), Str("urlD")),
   ImageStatusResult("success", Undef, Str("urlC")),
   ImageStatusResult("success", Undef, Undef),
   ImageStatusResult("processing", Undef, Undef),
   ImageStatusResult("failed", Undef, Undef)}

\* answers of POST /lyrics_generation
LyricsResults == [ok : {TRUE}, lyrics : {Undef, Str(""), Str("la la la")}]

\* answers of POST /music_generation
MusicResult(data_audio, audio_file) ==
  [ok |-> TRUE, data_audio |-> data_audio, audio_file |-> audio_file,
   audio_file_url |-> Undef, file_url |-> Undef, url |-> Undef]
MusicResults ==
  {MusicResult(Str("music1"), Str("music2")), MusicResult(Undef, Str("music1"))}

\* answers of POST /video_generation: an object with a task id (a string under
\* one name or the other, or a number), an object without one, an empty body
VideoResult(body, task_id, task_task_id) ==
  [ok |-> TRUE, body |-> body, task_id |-> task_id, task_task_id |-> task_task_id]
VideoResults ==
  {VideoResult("object", Str("t1"), Str("t2")),
   VideoResult("object", Undef, Str("t1")),
   VideoResult("object", Num("7"), Undef),
   VideoResult("object", Undef, Undef),
   VideoResult("empty", Undef, Undef)}

\* answers of GET /query/video_generation
VideoStatusResult(status, video_url) ==
  [ok |-> TRUE, status |-> status, video_url |-> video_url]
VideoStatusResults ==
  {VideoStatusResult("success", Str("v1")),
   VideoStatusResult("success", Str("v2")),
   VideoStatusResult("success", Undef),
   VideoStatusResult("failed", Undef),
   VideoStatusResult("processing", Undef),
   VideoStatusResult("Queueing", Undef)}

\* task ids a client may put in the path of GET /api/status/:taskId
Paths == {"t1", "7", "nope"}

(* ------------------- POST /api/generate: pure parts -------------------- *)
MaxImagePolls == 5

\* (variant: i <= 5)
LoopContinuesOffByOne(i) == i <= MaxImagePolls

\* for (let i = 0; i < 5; i++)
LoopContinues(i) == i < MaxImagePolls

\* getDefaultLyrics(theme): the built-in song text, whatever the theme
getDefaultLyrics(theme) == Str("[Intro] (Oh~) This is our story now ... Our story begins now...")

\* error.message || 'Failed to generate anime opening'
ErrorMessage(m) == IF m = "" THEN "Failed to generate anime opening" ELSE m

\* the template literal `${theme}`
ThemeText(theme) == IF theme.t = "string" THEN theme.v ELSE theme.t

\* `${theme}, anime style, beautiful vibrant colors, high quality`
ImagePrompt(theme) ==
  Str(ThemeText(theme) \o ", anime style, beautiful vibrant colors, high quality")

\* imageResult?.id || imageResult?.task_id
ImageTaskId(imageResult) == Or(imageResult.id, imageResult.task_id)

\* statusResult?.image?.image_url || statusResult?.data?.image_urls?.[0]
StatusImageUrl(statusResult) ==
  Or(statusResult.image_image_url, statusResult.data_image_url)

\* imageResult?.data?.image_urls?.[0] || imageResult?.image?.image_url
DirectImageUrl(imageResult) ==
  Or(imageResult.data_image_url, imageResult.image_image_url)

\* (variant: no fallback to the direct response)
FallbackImageUrlNever(imageUrl, imageResult) == imageUrl

\* if (!imageUrl) imageUrl = <direct response>
FallbackImageUrl(imageUrl, imageResult) ==
  IF ~Truthy(imageUrl) THEN DirectImageUrl(imageResult) ELSE imageUrl

\* (variant: the catch returns nothing)
LyricsOfNoCatch(response, theme) ==
  IF response.ok THEN Or(response.lyrics, getDefaultLyrics(theme)) ELSE Undef

\* generateLyrics: response.lyrics || getDefaultLyrics(theme), and the catch
LyricsOf(response, theme) ==
  IF response.ok THEN Or(response.lyrics, getDefaultLyrics(theme))
  ELSE getDefaultLyrics(theme)

\* musicResult?.data?.audio || ... || musicResult
MusicUrl(musicResult) ==
  Or(musicResult.data_audio,
     Or(musicResult.audio_file,
        Or(musicResult.audio_file_url,
           Or(musicResult.file_url,
              Or(musicResult.url, Obj("musicResult"))))))

\* videoResult as a JS value; n tells the response objects apart
VideoResultValue(videoResult, n) ==
  IF videoResult.body = "empty" THEN Str("")
  ELSE Obj("videoResult#" \o ToString(n))

\* videoResult?.task_id || videoResult?.task?.task_id || videoResult
VideoTaskId(videoResult, n) ==
  Or(videoResult.task_id,
     Or(videoResult.task_task_id, VideoResultValue(videoResult, n)))

\* a provider request, its arguments, and what the handler saw of its answer:
\* "pending", then "resolved" or "rejected" (for a status query of the image
\* loop: "success", or "retry" for any other answer and for a rejection)
Call(endpoint, a, b) == [endpoint |-> endpoint, a |-> a, b |-> b, outcome |-> "pending"]

\* the pending request (the last one issued) settles
Settle(log, outcome) == [log EXCEPT ![Len(log)].outcome = outcome]

Outcome(r) == IF r.ok THEN "resolved" ELSE "rejected"

\* the object stored by tasks.set(taskId, {...}) (createdAt left out)
NewTask(g) ==
  [theme |-> g.theme, imageUrl |-> g.imageUrl, musicUrl |-> g.musicUrl,
   lyrics |-> g.lyrics, status |-> "processing", videoUrl |-> Undef]

\* tasks.set(key, ref)
MapSet(m, key, ref) ==
  [k \in DOMAIN m \cup {key} |-> IF k = key THEN ref ELSE m[k]]

NoRes ==
  [code |-> 0, status |-> Undef, taskId |-> Undef, musicUrl |-> Undef,
   imageUrl |-> Undef, lyrics |-> Undef, videoUrl |-> Undef, error |-> Undef]

\* res.status(code).json({ error })
ErrorRes(code, m) == [NoRes EXCEPT !.code = code, !.error = Str(m)]

\* (variant: status decided by the image URL instead of the task id)
GenerateResByImage(g) ==
  [NoRes EXCEPT !.code = 200,
                !.status = IF Truthy(g.imageUrl) THEN Str("processing") ELSE Str("completed"),
                !.taskId = g.taskId, !.musicUrl = g.musicUrl,
                !.imageUrl = g.imageUrl, !.lyrics = g.lyrics]

\* res.json({ status: taskId ? 'processing' : 'completed', taskId, ... })
GenerateRes(g) ==
  [NoRes EXCEPT !.code = 200,
                !.status = IF Truthy(g.taskId) THEN Str("processing") ELSE Str("completed"),
                !.taskId = g.taskId, !.musicUrl = g.musicUrl,
                !.imageUrl = g.imageUrl, !.lyrics = g.lyrics]

NoResult == [ok |-> FALSE, message |-> ""]

IdleGen ==
  [pc |-> "idle", theme |-> Undef, imageResult |-> NoResult,
   imageTaskId |-> Undef, i |-> 0, imageUrl |-> Null, lyrics |-> Undef, musicUrl |-> Undef, taskId |-> Null]

(* --------------------- POST /api/generate: handler --------------------- *)
\* (variant: the answer never carries error.message)
AbortGenericMessage(g, m) ==
  /\ gen' = IdleGen
  /\ genRes' = ErrorRes(500, ErrorMessage(""))
  /\ UNCHANGED <<tasks, heap>>

\* the catch block: res.status(500).json({ error: error.message || ... })
Abort(g, m) ==
  /\ gen' = IdleGen
  /\ genRes' = ErrorRes(500, ErrorMessage(m))
  /\ UNCHANGED <<tasks, heap>>

\* "if (taskId) tasks.set(...)" and res.json(...)
Finish(g) ==
  /\ gen' = IdleGen
  /\ genRes' = GenerateRes(g)
  /\ IF Truthy(g.taskId)
       THEN /\ heap' = Append(heap, NewTask(g))
            /\ tasks' = MapSet(tasks, g.taskId, Len(heap) + 1)
       ELSE UNCHANGED <<tasks, heap>>

\* (variant: the lyrics step is left out)
AfterImageSkipsLyrics(g, log) ==
  /\ gen' = [g EXCEPT !.imageUrl = FallbackImageUrl(g.imageUrl, g.imageResult),
                      !.lyrics = getDefaultLyrics(g.theme),
                      !.pc = "generateMusic"]
  /\ calls' = Append(log, Call("music_generation", g.theme, getDefaultLyrics(g.theme)))
  /\ UNCHANGED <<tasks, heap, genRes>>

\* the image step is over: fall back to the direct response, then call
\* generateLyrics(theme)
AfterImage(g, log) ==
  /\ gen' = [g EXCEPT !.imageUrl = FallbackImageUrl(g.imageUrl, g.imageResult),
                      !.pc = "generateLyrics"]
  /\ calls' = Append(log, Call("lyrics_generation", g.theme, Undef))
  /\ UNCHANGED <<tasks, heap, genRes>>

\* limits.fileSize of the multer upload
FileSizeLimit == 10 * 1024 * 1024

\* the size in bytes of an uploaded file
FileSize(file) ==
  IF file = Obj("big") THEN FileSizeLimit + 1
  ELSE IF file = Obj("upload") THEN 204800
  ELSE 0

\* upload.single('image') hands a file over the limit to Express as an error:
\* the route handler is not called
UploadRejected(file) == Truthy(file) /\ FileSize(file) > FileSizeLimit

\* the answer of Express's default error handler: 500 with an HTML page
UploadRejectedRes == [NoRes EXCEPT !.code = 500]

\* (variant: an uploaded file is sent along to the image generation)
GenerateRequestUsesUpload(theme, file) ==
  /\ gen.pc = "idle"
  /\ genCount < MaxGenerates
  /\ genCount' = genCount + 1
  /\ IF UploadRejected(file)
       THEN /\ gen' = IdleGen
            /\ genRes' = UploadRejectedRes
            /\ calls' = <<>>
     ELSE IF ~apiKey
       THEN /\ gen' = IdleGen
            /\ genRes' = ErrorRes(500, "MiniMax API key not configured. Please set MINIMAX_API_KEY environment variable.")
            /\ calls' = <<>>
       ELSE /\ gen' = [IdleGen EXCEPT !.theme = theme, !.pc = "generateImage"]
            /\ genRes' = NoRes
            /\ calls' = <<Call("image_generation", ImagePrompt(theme), file)>>
  /\ UNCHANGED <<apiKey, tasks, heap, st, statusRes, statusCount>>

\* (variant: the API key check left out)
GenerateRequestNoKeyCheck(theme, file) ==
  /\ gen.pc = "idle"
  /\ genCount < MaxGenerates
  /\ genCount' = genCount + 1
  /\ IF UploadRejected(file)
       THEN /\ gen' = IdleGen
            /\ genRes' = UploadRejectedRes
            /\ calls' = <<>>
       ELSE /\ gen' = [IdleGen EXCEPT !.theme = theme, !.pc = "generateImage"]
            /\ genRes' = NoRes
            /\ calls' = <<Call("image_generation", ImagePrompt(theme), Undef)>>
  /\ UNCHANGED <<apiKey, tasks, heap, st, statusRes, statusCount>>

\* the request arrives: the upload middleware, the API key check, then
\* generateImage(prompt) is called
GenerateRequest(theme, file) ==
  /\ gen.pc = "idle"
  /\ genCount < MaxGenerates
  /\ genCount' = genCount + 1
  /\ IF UploadRejected(file)
       THEN /\ gen' = IdleGen
            /\ genRes' = UploadRejectedRes
            /\ calls' = <<>>
     ELSE IF ~apiKey
       THEN /\ gen' = IdleGen
            /\ genRes' = ErrorRes(500, "MiniMax API key not configured. Please set MINIMAX_API_KEY environment variable.")
            /\ calls' = <<>>
       ELSE /\ gen' = [IdleGen EXCEPT !.theme = theme, !.pc = "generateImage"]
            /\ genRes' = NoRes
            /\ calls' = <<Call("image_generation", ImagePrompt(theme), Undef)>>
  /\ UNCHANGED <<apiKey, tasks, heap, st, statusRes, statusCount>>

\* generateImage settles
GenerateImageDone(r) ==
  /\ gen.pc = "generateImage"
  /\ LET log == Settle(calls, Outcome(r))
     IN IF ~r.ok
          THEN Abort(gen, r.message) /\ calls' = log
          ELSE LET g == [gen EXCEPT !.imageResult = r, !.imageTaskId = ImageTaskId(r)]
               IN IF Truthy(g.imageTaskId)
                    THEN /\ gen' = [g EXCEPT !.pc = "timer"]
                         /\ calls' = log
                         /\ UNCHANGED <<tasks, heap, genRes>>
                    ELSE AfterImage(g, log)
  /\ UNCHANGED <<apiKey, genCount, st, statusRes, statusCount>>

\* the 2 s timer of a loop iteration fires: queryImageStatus(imageTaskId)
ImageTimer ==
  /\ gen.pc = "timer"
  /\ gen' = [gen EXCEPT !.pc = "queryImageStatus"]
  /\ calls' = Append(calls, Call("query/image_generation", gen.imageTaskId, Undef))
  /\ UNCHANGED <<apiKey, tasks, heap, genRes, genCount, st, statusRes, statusCount>>

\* (variant: no try/catch around the query, a rejection aborts the request)
QueryImageStatusDoneThrows(r) ==
  /\ gen.pc = "queryImageStatus"
  /\ IF ~r.ok
       THEN Abort(gen, r.message) /\ calls' = Settle(calls, "rejected")
     ELSE IF r.status = "success"
       THEN AfterImage([gen EXCEPT !.imageUrl = StatusImageUrl(r)],
                       Settle(calls, "success"))
     ELSE IF LoopContinues(gen.i + 1)
       THEN /\ gen' = [gen EXCEPT !.i = @ + 1, !.pc = "timer"]
            /\ calls' = Settle(calls, "retry")
            /\ UNCHANGED <<tasks, heap, genRes>>
     ELSE AfterImage([gen EXCEPT !.i = @ + 1], Settle(calls, "retry"))
  /\ UNCHANGED <<apiKey, genCount, st, statusRes, statusCount>>

\* queryImageStatus settles: break on success, else next iteration (i++)
QueryImageStatusDone(r) ==
  /\ gen.pc = "queryImageStatus"
  /\ IF r.ok /\ r.status = "success"
       THEN AfterImage([gen EXCEPT !.imageUrl = StatusImageUrl(r)],
                       Settle(calls, "success"))
       ELSE IF LoopContinues(gen.i + 1)
         THEN /\ gen' = [gen EXCEPT !.i = @ + 1, !.pc = "timer"]
              /\ calls' = Settle(calls, "retry")
              /\ UNCHANGED <<tasks, heap, genRes>>
         ELSE AfterImage([gen EXCEPT !.i = @ + 1], Settle(calls, "retry"))
  /\ UNCHANGED <<apiKey, genCount, st, statusRes, statusCount>>

\* generateLyrics settles (it never rejects: the catch is inside it), then
\* generateMusic(theme, lyrics) is called
GenerateLyricsDone(r) ==
  /\ gen.pc = "generateLyrics"
  /\ LET lyrics == LyricsOf(r, gen.theme)
     IN /\ gen' = [gen EXCEPT !.lyrics = lyrics, !.pc = "generateMusic"]
        /\ calls' = Append(Settle(calls, Outcome(r)),
                           Call("music_generation", gen.theme, lyrics))
  /\ UNCHANGED <<apiKey, tasks, heap, genRes, genCount, st, statusRes, statusCount>>

\* (variant: generateVideo is called whether or not there is an image URL)
GenerateMusicDoneAlwaysVideo(r) ==
  /\ gen.pc = "generateMusic"
  /\ LET log == Settle(calls, Outcome(r))
     IN IF ~r.ok
          THEN Abort(gen, r.message) /\ calls' = log
          ELSE LET g == [gen EXCEPT !.musicUrl = MusicUrl(r)]
               IN /\ gen' = [g EXCEPT !.pc = "generateVideo"]
                  /\ calls' = Append(log, Call("video_generation", g.imageUrl, g.theme))
                  /\ UNCHANGED <<tasks, heap, genRes>>
  /\ UNCHANGED <<apiKey, genCount, st, statusRes, statusCount>>

\* generateMusic settles, then generateVideo is called if there is an image URL
GenerateMusicDone(r) ==
  /\ gen.pc = "generateMusic"
  /\ LET log == Settle(calls, Outcome(r))
     IN IF ~r.ok
          THEN Abort(gen, r.message) /\ calls' = log
          ELSE LET g == [gen EXCEPT !.musicUrl = MusicUrl(r)]
               IN IF Truthy(g.imageUrl)
                    THEN /\ gen' = [g EXCEPT !.pc = "generateVideo"]
                         /\ calls' = Append(log, Call("video_generation", g.imageUrl, g.theme))
                         /\ UNCHANGED <<tasks, heap, genRes>>
                    ELSE Finish(g) /\ calls' = log
  /\ UNCHANGED <<apiKey, genCount, st, statusRes, statusCount>>

\* generateVideo settles: task id extraction, registration, response
GenerateVideoDone(r) ==
  /\ gen.pc = "generateVideo"
  /\ calls' = Settle(calls, Outcome(r))
  /\ IF ~r.ok
       THEN Abort(gen, r.message)
       ELSE Finish([gen EXCEPT !.taskId = VideoTaskId(r, genCount)])
  /\ UNCHANGED <<apiKey, genCount, st, statusRes, statusCount>>

(* --------------------- GET /api/status/:taskId ------------------------- *)
\* connections on which status requests arrive; each carries one at a time
Conns == {"c1", "c2"}

IdleSt == [pc |-> "idle", taskId |-> "", task |-> 0]

\* nothing answered yet
NoStatusRes ==
  [taskId |-> "", before |-> "", statusResult |-> NoResult, res |-> NoRes]

\* (variant: the audio URL comes back)
mergeReturnsAudio(videoUrl, audioUrl) == audioUrl

\* mergeVideoAndAudio(videoUrl, audioUrl)
mergeVideoAndAudio(videoUrl, audioUrl) == videoUrl

\* res.json({ status: 'success', videoUrl: finalVideoUrl })
SuccessRes(finalVideoUrl) ==
  [NoRes EXCEPT !.code = 200, !.status = Str("success"), !.videoUrl = finalVideoUrl]

\* res.json({ status: 'failed', error: 'Video generation failed' })
FailedRes ==
  [NoRes EXCEPT !.code = 200, !.status = Str("failed"),
                !.error = Str("Video generation failed")]

\* res.json({ status: 'processing' })
ProcessingRes == [NoRes EXCEPT !.code = 200, !.status = Str("processing")]

\* (variant: an unknown task is reported as still processing)
StatusRequestUnknownProcessing(c, path) ==
  /\ st[c].pc = "idle"
  /\ statusCount < MaxStatus
  /\ statusCount' = statusCount + 1
  /\ IF Str(path) \notin DOMAIN tasks
       THEN /\ statusRes' = [NoStatusRes EXCEPT !.taskId = path, !.res = ProcessingRes]
            /\ UNCHANGED st
       ELSE /\ st' = [st EXCEPT ![c] = [pc |-> "queryVideoStatus", taskId |-> path,
                                        task |-> tasks[Str(path)]]]
            /\ UNCHANGED statusRes
  /\ UNCHANGED <<apiKey, tasks, heap, gen, genRes, calls, genCount>>

\* (variant: a video URL already stored is kept)
SetSuccessKeepsFirstUrl(task, finalVideoUrl) ==
  [heap EXCEPT ![task] = [@ EXCEPT !.status = "success",
                                   !.videoUrl = Or(@, finalVideoUrl)]]

\* task.status = 'success'; task.videoUrl = finalVideoUrl
SetSuccess(task, finalVideoUrl) ==
  [heap EXCEPT ![task] = [@ EXCEPT !.status = "success", !.videoUrl = finalVideoUrl]]

\* the handler starts: tasks.get(taskId), 404 or queryVideoStatus(taskId)
StatusLookup(c, path) ==
  /\ st[c].pc = "idle"
  /\ IF Str(path) \notin DOMAIN tasks
       THEN /\ statusRes' = [NoStatusRes EXCEPT !.taskId = path,
                                      !.res = ErrorRes(404, "Task not found")]
            /\ UNCHANGED st
       ELSE /\ st' = [st EXCEPT ![c] = [pc |-> "queryVideoStatus", taskId |-> path,
                                        task |-> tasks[Str(path)]]]
            /\ UNCHANGED statusRes
  /\ UNCHANGED <<apiKey, tasks, heap, gen, genRes, calls, genCount>>

\* a GET /api/status/:taskId request arrives
StatusRequest(c, path) ==
  /\ statusCount < MaxStatus
  /\ statusCount' = statusCount + 1
  /\ StatusLookup(c, path)

\* error.message || 'Failed to query status'
StatusErrorMessage(m) == IF m = "" THEN "Failed to query status" ELSE m

\* the response of connection c's handler goes out; r is the provider's answer
Send(c, r, res) ==
  statusRes' = [taskId |-> st[c].taskId, before |-> heap[st[c].task].status,
                statusResult |-> r, res |-> res]

\* (variant: the catch block also marks the task failed)
StatusCatchMarksFailed(c, r) ==
  /\ Send(c, r, ErrorRes(500, StatusErrorMessage(r.message)))
  /\ heap' = [heap EXCEPT ![st[c].task] = [@ EXCEPT !.status = "failed"]]
  /\ UNCHANGED tasks

\* the catch block: res.status(500).json({ error })
StatusCatch(c, r) ==
  /\ Send(c, r, ErrorRes(500, StatusErrorMessage(r.message)))
  /\ UNCHANGED <<tasks, heap>>

\* (variant: a task that is no longer 'processing' is answered from the store)
StatusSuccessIfProcessing(c, r) ==
  LET task == heap[st[c].task]
      finalVideoUrl == mergeVideoAndAudio(r.video_url, task.musicUrl)
  IN IF task.status = "processing"
       THEN /\ heap' = SetSuccess(st[c].task, finalVideoUrl)
            /\ tasks' = MapSet(tasks, Str(st[c].taskId), st[c].task)
            /\ Send(c, r, SuccessRes(finalVideoUrl))
       ELSE /\ UNCHANGED <<tasks, heap>>
            /\ Send(c, r, [NoRes EXCEPT !.code = 200, !.status = Str(task.status),
                                        !.videoUrl = task.videoUrl])

\* statusResult.status === 'success'
StatusSuccess(c, r) ==
  LET finalVideoUrl == mergeVideoAndAudio(r.video_url, heap[st[c].task].musicUrl)
  IN /\ heap' = SetSuccess(st[c].task, finalVideoUrl)
     /\ tasks' = MapSet(tasks, Str(st[c].taskId), st[c].task)
     /\ Send(c, r, SuccessRes(finalVideoUrl))

\* (variant: the failure is reported but not stored)
StatusFailedNotStored(c, r) ==
  /\ UNCHANGED <<tasks, heap>>
  /\ Send(c, r, FailedRes)

\* statusResult.status === 'failed'
StatusFailed(c, r) ==
  /\ heap' = [heap EXCEPT ![st[c].task] = [@ EXCEPT !.status = "failed"]]
  /\ tasks' = MapSet(tasks, Str(st[c].taskId), st[c].task)
  /\ Send(c, r, FailedRes)

\* (variant: the provider's status is written to the task)
StatusOtherStored(c, r) ==
  /\ heap' = [heap EXCEPT ![st[c].task] = [@ EXCEPT !.status = r.status]]
  /\ tasks' = MapSet(tasks, Str(st[c].taskId), st[c].task)
  /\ Send(c, r, ProcessingRes)

\* any other status
StatusOther(c, r) ==
  /\ Send(c, r, ProcessingRes)
  /\ UNCHANGED <<tasks, heap>>

\* queryVideoStatus settles: the three branches and the catch block
QueryVideoStatusDone(c, r) ==
  /\ st[c].pc = "queryVideoStatus"
  /\ st' = [st EXCEPT ![c] = IdleSt]
  /\ IF ~r.ok THEN StatusCatch(c, r)
     ELSE IF r.status = "success" THEN StatusSuccess(c, r)
     ELSE IF r.status = "failed" THEN StatusFailed(c, r)
     ELSE StatusOther(c, r)
  /\ UNCHANGED <<apiKey, gen, genRes, calls, genCount, statusCount>>

(* ------------------- the client: App (part_000) ------------------------ *)
\* what the user may type as a theme, as sequences of characters
ThemeInputs == {<<>>, <<" ", " ">>, <<"e", "p", "i", "c">>}

\* files the user may select: name and size in bytes
MaxImageSize == 10 * 1024 * 1024
ClientFiles ==
  {[name |-> "upload", size |-> 204800], [name |-> "big", size |-> MaxImageSize + 1]}

IsSpace(ch) == ch \in {" ", "\t", "\n"}

RECURSIVE TrimStart(_)
TrimStart(s) == IF s # <<>> /\ IsSpace(Head(s)) THEN TrimStart(Tail(s)) ELSE s

RECURSIVE TrimEnd(_)
TrimEnd(s) ==
  IF s # <<>> /\ IsSpace(s[Len(s)]) THEN TrimEnd(SubSeq(s, 1, Len(s) - 1)) ELSE s

\* String.prototype.trim
Trim(s) == TrimEnd(TrimStart(s))

\* the characters as one string
RECURSIVE Text(_)
Text(s) == IF s = <<>> THEN "" ELSE Head(s) \o Text(Tail(s))

\* `${taskId}` in the URL of the status request
PathOf(taskId) ==
  IF taskId.t \in {"string", "number"} THEN taskId.v
  ELSE IF taskId.t = "object" THEN "[object Object]"
  ELSE taskId.t

Steps == 1..4

NoData == [taskId |-> Undef, musicUrl |-> Undef]

\* useState(...) initial values; handleGenerate is not running
InitClient ==
  [pc |-> "idle", image |-> Null, theme |-> <<>>, isGenerating |-> FALSE,
   progress |-> [i \in Steps |-> "pending"], snapshot |-> [i \in Steps |-> "pending"],
   result |-> Null, error |-> Null, data |-> NoData]

\* updateStep(stepId, status)
updateStep(progress, stepId, status) == [progress EXCEPT ![stepId] = status]

\* (variant: the theme is not trimmed)
InvalidInputNoTrim(image, theme) == ~Truthy(image) \/ ~Truthy(Str(Text(theme)))

\* !image || !theme.trim()
InvalidInput(image, theme) == ~Truthy(image) \/ ~Truthy(Str(Text(Trim(theme))))

\* the generate button's disabled attribute
ButtonDisabled == cl.isGenerating \/ InvalidInput(cl.image, cl.theme)

\* (variant: no finally block, isGenerating is not reset after a throw)
CatchNoFinally(c, message) ==
  [c EXCEPT !.pc = "idle",
            !.error = Str(message),
            !.progress = [i \in Steps |-> IF c.snapshot[i] = "processing"
                                            THEN "error" ELSE c.progress[i]],
            !.data = NoData]

\* the catch and finally blocks of handleGenerate: `progress` is the array of
\* the render in which this handleGenerate was created
Catch(c, message) ==
  [c EXCEPT !.pc = "idle",
            !.error = Str(message),
            !.progress = [i \in Steps |-> IF c.snapshot[i] = "processing"
                                            THEN "error" ELSE c.progress[i]],
            !.isGenerating = FALSE,
            !.data = NoData]

\* the server's variables
serverVars == <<apiKey, tasks, heap, gen, genRes, calls, genCount, st, statusRes, statusCount>>

\* onChange of the theme textarea
SetTheme(t) ==
  /\ cl.theme # t
  /\ cl' = [cl EXCEPT !.theme = t]
  /\ UNCHANGED serverVars

\* handleImageSelect(file)
handleImageSelect(file) ==
  /\ IF file.size > MaxImageSize
       THEN cl' = [cl EXCEPT !.error = Str("Image must be less than 10MB")]
       ELSE cl' = [cl EXCEPT !.image = Obj(file.name), !.error = Null]
  /\ UNCHANGED serverVars

\* the remove-image button
RemoveImage ==
  /\ cl.image # Null
  /\ cl' = [cl EXCEPT !.image = Null]
  /\ UNCHANGED serverVars

\* handleGenerate up to its first await: the check of the inputs, then the
\* POST /api/generate request, which reaches the server
handleGenerate ==
  /\ cl.pc = "idle"
  /\ IF InvalidInput(cl.image, cl.theme)
       THEN /\ cl' = [cl EXCEPT !.error = Str("Please upload an image and enter a theme")]
            /\ UNCHANGED serverVars
       ELSE /\ cl' = [cl EXCEPT !.pc = "fetchGenerate",
                                !.isGenerating = TRUE,
                                !.error = Null,
                                !.result = Null,
                                !.snapshot = cl.progress,
                                !.progress = updateStep(cl.progress, 1, "processing")]
            /\ GenerateRequest(Str(Text(cl.theme)), cl.image)

\* response.ok
ResponseOk(res) == res.code >= 200 /\ res.code <= 299

\* (variant: a 'completed' answer is shown as a result)
GenerateResponseShowsCompleted ==
  /\ cl.pc = "fetchGenerate"
  /\ gen.pc = "idle"
  /\ genRes.code # 0
  /\ IF ~ResponseOk(genRes)
       THEN cl' = Catch(cl, Or(genRes.error, Str("Generation failed")).v)
       ELSE LET p2 == updateStep(updateStep(cl.progress, 1, "completed"), 2, "processing")
            IN IF genRes.status = Str("processing")
                 THEN cl' = [cl EXCEPT !.pc = "timer",
                                       !.data = [taskId |-> genRes.taskId,
                                                 musicUrl |-> genRes.musicUrl],
                                       !.progress = updateStep(updateStep(p2, 2, "completed"),
                                                               3, "processing")]
                 ELSE cl' = [cl EXCEPT !.pc = "idle", !.progress = p2,
                                       !.result = [videoUrl |-> genRes.videoUrl,
                                                   musicUrl |-> genRes.musicUrl],
                                       !.isGenerating = FALSE]
  /\ UNCHANGED serverVars

\* the answer to POST /api/generate arrives: "if (!response.ok) throw", steps
\* 1 and 2, then the polling loop is entered if data.status === 'processing'
GenerateResponse ==
  /\ cl.pc = "fetchGenerate"
  /\ gen.pc = "idle"
  /\ genRes.code # 0
  /\ IF ~ResponseOk(genRes)
       THEN cl' = Catch(cl, Or(genRes.error, Str("Generation failed")).v)
       ELSE LET p2 == updateStep(updateStep(cl.progress, 1, "completed"), 2, "processing")
            IN IF genRes.status = Str("processing")
                 THEN cl' = [cl EXCEPT !.pc = "timer",
                                       !.data = [taskId |-> genRes.taskId,
                                                 musicUrl |-> genRes.musicUrl],
                                       !.progress = updateStep(updateStep(p2, 2, "completed"),
                                                               3, "processing")]
                 ELSE cl' = [cl EXCEPT !.pc = "idle", !.progress = p2,
                                       !.isGenerating = FALSE]
  /\ UNCHANGED serverVars

\* (variant: a poll goes out every 3 s, answered or not, as with setInterval)
PollTimerInterval ==
  /\ cl.pc \in {"timer", "fetchStatus"}
  /\ cl' = [cl EXCEPT !.pc = "fetchStatus"]
  /\ StatusLookup("c1", PathOf(cl.data.taskId))
  /\ UNCHANGED statusCount

\* the 3 s timer of the polling loop fires: fetch(`/api/status/${data.taskId}`),
\* which reaches the server
PollTimer ==
  /\ cl.pc = "timer"
  /\ cl' = [cl EXCEPT !.pc = "fetchStatus"]
  /\ StatusLookup("c1", PathOf(cl.data.taskId))
  /\ UNCHANGED statusCount

\* (variant: every status but 'processing' ends the loop)
StatusResponseStopsOnUnknown ==
  /\ cl.pc = "fetchStatus"
  /\ st["c1"].pc = "idle"
  /\ LET statusData == statusRes.res
     IN IF statusData.status = Str("success")
          THEN cl' = [cl EXCEPT !.pc = "idle",
                                !.progress = updateStep(updateStep(updateStep(cl.progress,
                                               3, "completed"), 4, "processing"), 4, "completed"),
                                !.result = [videoUrl |-> statusData.videoUrl,
                                            musicUrl |-> cl.data.musicUrl],
                                !.isGenerating = FALSE,
                                !.data = NoData]
        ELSE IF statusData.status = Str("failed")
          THEN cl' = Catch(cl, "Video generation failed")
        ELSE IF statusData.status = Str("processing")
          THEN cl' = [cl EXCEPT !.pc = "timer"]
        ELSE cl' = [cl EXCEPT !.pc = "idle", !.isGenerating = FALSE, !.data = NoData]
  /\ UNCHANGED serverVars

\* (variant: step 4 is left 'processing' when the result is set)
StatusResponseStepFourProcessing ==
  /\ cl.pc = "fetchStatus"
  /\ st["c1"].pc = "idle"
  /\ LET statusData == statusRes.res
     IN IF statusData.status = Str("success")
          THEN cl' = [cl EXCEPT !.pc = "idle",
                                !.progress = updateStep(updateStep(cl.progress,
                                               3, "completed"), 4, "processing"),
                                !.result = [videoUrl |-> statusData.videoUrl,
                                            musicUrl |-> cl.data.musicUrl],
                                !.isGenerating = FALSE,
                                !.data = NoData]
        ELSE IF statusData.status = Str("failed")
          THEN cl' = Catch(cl, "Video generation failed")
        ELSE cl' = [cl EXCEPT !.pc = "timer"]
  /\ UNCHANGED serverVars

\* the answer to GET /api/status arrives: the three cases of statusData.status
StatusResponse ==
  /\ cl.pc = "fetchStatus"
  /\ st["c1"].pc = "idle"
  /\ LET statusData == statusRes.res
     IN IF statusData.status = Str("success")
          THEN cl' = [cl EXCEPT !.pc = "idle",
                                !.progress = updateStep(updateStep(updateStep(cl.progress,
                                               3, "completed"), 4, "processing"), 4, "completed"),
                                !.result = [videoUrl |-> statusData.videoUrl,
                                            musicUrl |-> cl.data.musicUrl],
                                !.isGenerating = FALSE,
                                !.data = NoData]
        ELSE IF statusData.status = Str("failed")
          THEN cl' = Catch(cl, "Video generation failed")
        ELSE cl' = [cl EXCEPT !.pc = "timer"]
  /\ UNCHANGED serverVars

\* a fetch of the run rejects (the network fails): catch and finally
FetchRejected ==
  /\ cl.pc \in {"fetchGenerate", "fetchStatus"}
  /\ cl' = Catch(cl, "Failed to fetch")
  /\ UNCHANGED serverVars

\* the provider's answers in the runs with the client: those that make the
\* server give each of its answers to the client
ClientFailures == {Failed("Network Error")}
ClientImageResults ==
  {ImageResult(Str("img1"), Undef, Undef, Undef),
   ImageResult(Undef, Undef, Str("urlA"), Undef),
   ImageResult(Undef, Undef, Undef, Undef)}
ClientImageStatusResults ==
  {ImageStatusResult("success", Str("urlC"), Str("urlD")),
   ImageStatusResult("processing", Undef, Undef)}
ClientLyricsResults == {[ok |-> TRUE, lyrics |-> Str("la la la")]}
ClientMusicResults == {MusicResult(Str("music1"), Str("music2"))}

\* what the server and the provider do between the client's requests
ServerStep ==
  /\ \/ \E r \in ClientImageResults \cup ClientFailures : GenerateImageDone(r)
     \/ ImageTimer
     \/ \E r \in ClientImageStatusResults \cup ClientFailures : QueryImageStatusDone(r)
     \/ \E r \in ClientLyricsResults \cup ClientFailures : GenerateLyricsDone(r)
     \/ \E r \in ClientMusicResults \cup ClientFailures : GenerateMusicDone(r)
     \/ \E r \in VideoResults \cup ClientFailures : GenerateVideoDone(r)
     \/ \E r \in VideoStatusResults \cup ClientFailures : QueryVideoStatusDone("c1", r)
  /\ UNCHANGED cl

(* --------------------------- specification ----------------------------- *)
Init ==
  /\ apiKey \in BOOLEAN
  /\ tasks = [k \in {} |-> 0]
  /\ heap = <<>>
  /\ gen = IdleGen
  /\ genRes = NoRes
  /\ calls = <<>>
  /\ genCount = 0
  /\ st = [c \in Conns |-> IdleSt]
  /\ statusRes = NoStatusRes
  /\ statusCount = 0
  /\ cl = InitClient

Next ==
  \/ (\E theme \in Themes, file \in Files : GenerateRequest(theme, file)) /\ UNCHANGED cl
  \/ (\E r \in ImageResults \cup Failures : GenerateImageDone(r)) /\ UNCHANGED cl
  \/ ImageTimer /\ UNCHANGED cl
  \/ (\E r \in ImageStatusResults \cup Failures : QueryImageStatusDone(r)) /\ UNCHANGED cl
  \/ (\E r \in LyricsResults \cup Failures : GenerateLyricsDone(r)) /\ UNCHANGED cl
  \/ (\E r \in MusicResults \cup Failures : GenerateMusicDone(r)) /\ UNCHANGED cl
  \/ (\E r \in VideoResults \cup Failures : GenerateVideoDone(r)) /\ UNCHANGED cl
  \/ (\E c \in Conns, path \in Paths : StatusRequest(c, path)) /\ UNCHANGED cl
  \/ (\E c \in Conns, r \in VideoStatusResults \cup Failures : QueryVideoStatusDone(c, r))
       /\ UNCHANGED cl

Spec == Init /\ [][Next]_vars

\* req.body.theme: a text, the empty text, or no theme field at all
AllThemes == {Str("epic"), Str(""), Undef}

\* POST /api/generate alone, with every kind of theme
GenerateNext ==
  \/ (\E theme \in AllThemes, file \in Files : GenerateRequest(theme, file)) /\ UNCHANGED cl
  \/ (\E r \in ImageResults \cup Failures : GenerateImageDone(r)) /\ UNCHANGED cl
  \/ ImageTimer /\ UNCHANGED cl
  \/ (\E r \in ImageStatusResults \cup Failures : QueryImageStatusDone(r)) /\ UNCHANGED cl
  \/ (\E r \in LyricsResults \cup Failures : GenerateLyricsDone(r)) /\ UNCHANGED cl
  \/ (\E r \in MusicResults \cup Failures : GenerateMusicDone(r)) /\ UNCHANGED cl
  \/ (\E r \in VideoResults \cup Failures : GenerateVideoDone(r)) /\ UNCHANGED cl

GenerateSpec == Init /\ [][GenerateNext]_vars

\* the server driven by one browser client
ClientNext ==
  \/ \E t \in ThemeInputs : SetTheme(t)
  \/ \E file \in ClientFiles : handleImageSelect(file)
  \/ RemoveImage
  \/ handleGenerate
  \/ GenerateResponse
  \/ PollTimer
  \/ StatusResponse
  \/ FetchRejected
  \/ ServerStep

ClientSpec == Init /\ [][ClientNext]_vars

\* the provider's answers to video-status queries for a task that is going to
\* succeed: not ready yet, or 'success' with the video's URL
PendingAnswers == {r \in VideoStatusResults : r.status \notin {"success", "failed"}}
SuccessAnswers == {r \in VideoStatusResults : r.status = "success" /\ Truthy(r.video_url)}

\* the server's steps when the provider's video eventually succeeds
LiveServerStep ==
  /\ \/ \E r \in ClientImageResults \cup ClientFailures : GenerateImageDone(r)
     \/ ImageTimer
     \/ \E r \in ClientImageStatusResults \cup ClientFailures : QueryImageStatusDone(r)
     \/ \E r \in ClientLyricsResults \cup ClientFailures : GenerateLyricsDone(r)
     \/ \E r \in ClientMusicResults \cup ClientFailures : GenerateMusicDone(r)
     \/ \E r \in VideoResults \cup ClientFailures : GenerateVideoDone(r)
     \/ \E r \in PendingAnswers \cup ClientFailures : QueryVideoStatusDone("c1", r)
  /\ UNCHANGED cl

\* the provider reports 'success' to a status query
ReportSuccess ==
  /\ \E r \in SuccessAnswers : QueryVideoStatusDone("c1", r)
  /\ UNCHANGED cl

LiveNext ==
  \/ \E t \in ThemeInputs : SetTheme(t)
  \/ \E file \in ClientFiles : handleImageSelect(file)
  \/ RemoveImage
  \/ handleGenerate
  \/ GenerateResponse
  \/ PollTimer
  \/ StatusResponse
  \/ LiveServerStep
  \/ ReportSuccess

\* the network delivers every request and response, timers fire, the provider
\* answers every request, and it does not answer 'not ready' for ever
LiveSpec ==
  /\ Init
  /\ [][LiveNext]_vars
  /\ WF_vars(GenerateResponse)
  /\ WF_vars(PollTimer)
  /\ WF_vars(StatusResponse)
  /\ WF_vars(LiveServerStep \/ ReportSuccess)
  /\ SF_vars(ReportSuccess)

(* ------------------------------ properties ----------------------------- *)
\* positions in the log of the requests sent to an endpoint
CallsTo(endpoint) == {i \in 1..Len(calls) : calls[i].endpoint = endpoint}

\* the task object the registry holds under key k
StoredTask(k) == heap[tasks[k]]

\* C1: the status of a stored task changes only from 'processing' to 'success'
\* or to 'failed'; once 'success' or 'failed' it never changes again.
C1_StatusOnlyForward ==
  [][\A k \in DOMAIN tasks :
       heap'[tasks'[k]].status # StoredTask(k).status
         => /\ StoredTask(k).status = "processing"
            /\ heap'[tasks'[k]].status \in {"success", "failed"}]_vars

C3_LyricsFailureRecovered ==
  \A i \in CallsTo("lyrics_generation") :
    calls[i].outcome = "rejected" =>
      /\ Len(calls) > i
      /\ calls[i + 1].endpoint = "music_generation"
      /\ calls[i + 1].b = Str("[Intro] (Oh~) This is our story now ... Our story begins now...")
      /\ gen.pc # "idle" => gen.lyrics = calls[i + 1].b
      /\ gen.pc = "idle" => genRes.code \in {200, 500}
      /\ genRes.code = 200 => genRes.lyrics = calls[i + 1].b
      /\ genRes.code = 500 => \E j \in (i + 1)..Len(calls) : calls[j].outcome = "rejected"

C3_Witness ==
  /\ \E i \in CallsTo("lyrics_generation") : calls[i].outcome = "rejected"
  /\ genRes.code = 200
  /\ genRes.lyrics = getDefaultLyrics(Str("epic"))

\* C4: a status request for a task id that is not in the registry is answered
\* 404 'Task not found', without a provider query and without touching the
\* registry.
C4_UnknownTask404 ==
  [][\A c \in Conns, path \in Paths :
       (StatusRequest(c, path) /\ Str(path) \notin DOMAIN tasks)
         => /\ statusRes'.taskId = path
            /\ statusRes'.res.code = 404
            /\ statusRes'.res.error = Str("Task not found")
            /\ UNCHANGED <<tasks, heap, st>>]_vars

C4_Witness ==
  /\ statusRes.res.code = 404
  /\ statusRes.taskId = "nope"
  /\ Str("t1") \in DOMAIN tasks

\* the step in which the status handler of connection c handles the provider's
\* answer 'success'
SuccessAnswered(c) ==
  /\ st[c].pc = "queryVideoStatus"
  /\ st'[c].pc = "idle"
  /\ statusRes'.statusResult.ok
  /\ statusRes'.statusResult.status = "success"

C6_ImagePollingBounded ==
  LET Q == CallsTo("query/image_generation")
  IN /\ Cardinality(Q) <= 5
     /\ Q # {} =>
          /\ calls[1].endpoint = "image_generation"
          /\ calls[1].outcome = "resolved"
          /\ \A i \in Q : Truthy(calls[i].a)
          /\ gen.pc # "idle" =>
               /\ Truthy(Or(gen.imageResult.id, gen.imageResult.task_id))
               /\ \A i \in Q : calls[i].a = Or(gen.imageResult.id, gen.imageResult.task_id)
     /\ \A i \in Q : calls[i].outcome = "success" => \A j \in Q : j <= i

C6_Witness ==
  LET Q == CallsTo("query/image_generation")
  IN /\ Cardinality(Q) = 3
     /\ \E i \in Q : calls[i].outcome = "success"
     /\ CallsTo("music_generation") # {}

\* the status queries of the image loop are exhausted without a 'success'
Exhausted ==
  LET Q == CallsTo("query/image_generation")
  IN Cardinality(Q) = 5 /\ \A i \in Q : calls[i].outcome = "retry"

\* C7: when all 5 image-status queries end without 'success' and the first
\* image-generation answer carries a URL, that URL is the one the handler goes
\* on with: in the video request, in the stored task and in the response.
C7_FallbackToDirectUrl ==
  [][LET direct == Or(gen.imageResult.data_image_url, gen.imageResult.image_image_url)
     IN (gen.pc \in {"generateLyrics", "generateMusic", "generateVideo"}
           /\ Exhausted /\ Truthy(direct))
          => /\ gen.imageUrl = direct
             /\ \A i \in CallsTo("video_generation") : calls[i].a = direct
             /\ gen'.pc # "idle" => gen'.imageUrl = direct
             /\ genRes'.code = 200 =>
                  /\ genRes'.imageUrl = direct
                  /\ CallsTo("video_generation") # {}
                  /\ Truthy(genRes'.taskId) =>
                       heap'[tasks'[genRes'.taskId]].imageUrl = direct]_vars

C7_Witness ==
  /\ Exhausted
  /\ genRes.code = 200
  /\ genRes.imageUrl = Str("urlA")
  /\ genRes.taskId = Str("t1")
  /\ StoredTask(Str("t1")).imageUrl = Str("urlA")

\* request i of the log is an image, music or video generation that failed
RejectedGeneration(log, i) ==
  /\ log[i].endpoint \in {"image_generation", "music_generation", "video_generation"}
  /\ log[i].outcome = "rejected"

\* C8: when the image, music or video generation request fails, the handler
\* answers 500 with the message of that error, ends without sending another
\* provider request, and registers no task.
C8_FailureAborts ==
  [][/\ \A m \in ErrorMessages :
          (\/ GenerateImageDone(Failed(m))
           \/ GenerateMusicDone(Failed(m))
           \/ GenerateVideoDone(Failed(m)))
            => /\ genRes'.code = 500
               /\ genRes'.error = Str(m)
               /\ gen'.pc = "idle"
               /\ Len(calls') = Len(calls)
               /\ RejectedGeneration(calls', Len(calls'))
               /\ tasks' = tasks
               /\ heap' = heap
     /\ \A i \in 1..Len(calls') :
          RejectedGeneration(calls', i)
            => /\ i = Len(calls')
               /\ gen'.pc = "idle"
               /\ genRes'.code = 500
               /\ genRes'.taskId = Undef]_vars

C8_Witness ==
  /\ Len(calls) > 0
  /\ calls[Len(calls)].endpoint = "video_generation"
  /\ calls[Len(calls)].outcome = "rejected"
  /\ genRes.code = 500
  /\ genRes.error = Str("Network Error")
  /\ DOMAIN tasks = {}

\* C9: without MINIMAX_API_KEY every POST /api/generate is answered 500 with
\* an error payload (the handler's JSON error message, or the error page of
\* Express when the upload was over the size limit and the handler did not
\* run), no provider request is sent and the registry stays as it was (empty).
C9_NoKeyNoWork ==
  ~apiKey =>
    /\ calls = <<>>
    /\ gen.pc = "idle"
    /\ DOMAIN tasks = {}
    /\ heap = <<>>
    /\ genCount > 0 =>
         /\ genRes.code = 500
         /\ genRes.status = Undef
         /\ genRes.taskId = Undef
         /\ \/ genRes = UploadRejectedRes
            \/ genRes.error = Str("MiniMax API key not configured. Please set MINIMAX_API_KEY environment variable.")

C9_Witness ==
  /\ ~apiKey
  /\ genCount = 1
  /\ genRes.code = 500
  /\ genRes.error = Str("MiniMax API key not configured. Please set MINIMAX_API_KEY environment variable.")

\* C10: when the provider reports 'success', the handler sets the task's
\* status to 'success' and its videoUrl to the reported video URL, unchanged,
\* touches nothing else of the task or of the other tasks, stores it under the
\* requested id, and answers {status: 'success', videoUrl} with that URL.
C10_SuccessStoresReportedUrl ==
  [][\A c \in Conns :
       SuccessAnswered(c) =>
         LET t == st[c].task
             u == statusRes'.statusResult.video_url
         IN /\ heap' = [heap EXCEPT ![t] = [heap[t] EXCEPT !.status = "success",
                                                           !.videoUrl = u]]
            /\ DOMAIN tasks' = DOMAIN tasks
            /\ tasks'[Str(st[c].taskId)] = t
            /\ \A k \in DOMAIN tasks \ {Str(st[c].taskId)} : tasks'[k] = tasks[k]
            /\ statusRes'.res =
                 [NoRes EXCEPT !.code = 200, !.status = Str("success"), !.videoUrl = u]]_vars

C10_Witness ==
  /\ statusRes.taskId = "t1"
  /\ statusRes.before = "processing"
  /\ statusRes.statusResult = VideoStatusResult("success", Str("v2"))
  /\ statusRes.res.code = 200
  /\ statusRes.res.videoUrl = Str("v2")
  /\ StoredTask(Str("t1")).status = "success"
  /\ StoredTask(Str("t1")).videoUrl = Str("v2")

\* the step in which the status handler of connection c handles an answer of
\* the provider (or the failure of the query)
Answered(c) ==
  /\ st[c].pc = "queryVideoStatus"
  /\ st'[c].pc = "idle"

\* C11: when the provider reports 'failed' for a registered task, the handler
\* sets the stored task's status to 'failed' (and nothing else) and answers
\* with status 'failed' and an error message.
C11_FailedStoredAndReported ==
  [][\A c \in Conns :
       (/\ Answered(c)
        /\ statusRes'.statusResult.ok
        /\ statusRes'.statusResult.status = "failed")
         => LET t == st[c].task
            IN /\ heap'[t].status = "failed"
               /\ heap' = [heap EXCEPT ![t] = [heap[t] EXCEPT !.status = "failed"]]
               /\ tasks'[Str(st[c].taskId)] = t
               /\ statusRes'.res.status = Str("failed")
               /\ statusRes'.res.error.t = "string"
               /\ statusRes'.res.error.v # ""]_vars

C11_Witness ==
  /\ statusRes.taskId = "t1"
  /\ statusRes.before = "processing"
  /\ statusRes.statusResult = VideoStatusResult("failed", Undef)
  /\ statusRes.res.status = Str("failed")
  /\ StoredTask(Str("t1")).status = "failed"

\* C12: when the provider reports a status other than 'success' or 'failed',
\* the handler answers {status: 'processing'} and nothing else, and the
\* registry and every task object stay as they were.
C12_OtherStatusLeavesTask ==
  [][\A c \in Conns :
       (/\ Answered(c)
        /\ statusRes'.statusResult.ok
        /\ statusRes'.statusResult.status \notin {"success", "failed"})
         => /\ statusRes'.res =
                 [code |-> 200, status |-> Str("processing"), taskId |-> Undef,
                  musicUrl |-> Undef, imageUrl |-> Undef, lyrics |-> Undef,
                  videoUrl |-> Undef, error |-> Undef]
            /\ tasks' = tasks
            /\ heap' = heap]_vars

C12_Witness ==
  /\ statusRes.taskId = "t1"
  /\ statusRes.statusResult = VideoStatusResult("Queueing", Undef)
  /\ statusRes.res.status = Str("processing")
  /\ StoredTask(Str("t1")).status = "processing"
  /\ StoredTask(Str("t1")).videoUrl = Undef

\* C13: when the provider's video-status query fails, the handler answers 500
\* with the error's message, and the registry and every task object stay as
\* they were.
C13_QueryFailure500 ==
  [][\A c \in Conns :
       (Answered(c) /\ ~statusRes'.statusResult.ok)
         => /\ statusRes'.res.code = 500
            /\ statusRes'.res.error = Str(statusRes'.statusResult.message)
            /\ statusRes'.res.status = Undef
            /\ tasks' = tasks
            /\ heap' = heap]_vars

C13_Witness ==
  /\ statusRes.taskId = "t1"
  /\ statusRes.statusResult = Failed("Network Error")
  /\ statusRes.res.code = 500
  /\ statusRes.res.error = Str("Network Error")
  /\ StoredTask(Str("t1")).status = "processing"

\* C14: in the client, handleGenerate called with no image selected or with an
\* empty or blank theme sends no request to the server, leaves isGenerating
\* false and changes no progress step; the generate button is disabled then.
C14_ClientRejectsInvalidInput ==
  [][(/\ handleGenerate
      /\ \/ cl.image = Null
         \/ \A i \in 1..Len(cl.theme) : cl.theme[i] = " ")
       => /\ UNCHANGED serverVars
          /\ ~cl.isGenerating
          /\ ~cl'.isGenerating
          /\ cl'.progress = cl.progress
          /\ cl'.pc = "idle"
          /\ cl'.error = Str("Please upload an image and enter a theme")
          /\ ButtonDisabled]_vars

C14_Witness ==
  /\ cl.error = Str("Please upload an image and enter a theme")
  /\ cl.image = Obj("upload")
  /\ cl.theme = <<" ", " ">>
  /\ ~cl.isGenerating
  /\ genCount = 0
  /\ calls = <<>>

IssuedTaskId(r) == IF Truthy(r.task_id) THEN r.task_id ELSE r.task_task_id

\* C16: a task is created exactly when the video-generation call returns a
\* task identifier: it is stored under that identifier, with status
\* 'processing', and nothing is stored when the answer carries no identifier.
C16_TaskCreatedIffIdReturned ==
  [][/\ Len(heap') # Len(heap) =>
          \E r \in VideoResults :
            /\ GenerateVideoDone(r)
            /\ Truthy(IssuedTaskId(r))
            /\ DOMAIN tasks' = DOMAIN tasks \cup {IssuedTaskId(r)}
     /\ \A r \in VideoResults :
          (GenerateVideoDone(r) /\ Truthy(IssuedTaskId(r)))
            => /\ IssuedTaskId(r) \in DOMAIN tasks'
               /\ tasks'[IssuedTaskId(r)] = Len(heap) + 1
               /\ Len(heap') = Len(heap) + 1
               /\ heap'[Len(heap')].status = "processing"
     /\ \A k \in DOMAIN tasks' : k.t \in {"string", "number"}]_vars

\* C17: a POST /api/generate whose theme is missing or empty sends no
\* generation request to the provider: the handler ends at once.
C17_ThemeRequired ==
  [][\A theme \in AllThemes, file \in Files :
       (GenerateRequest(theme, file) /\ ~Truthy(theme))
         => /\ calls' = <<>>
            /\ gen'.pc = "idle"]_vars

\* the URLs of the images the provider generated from the prompt
GeneratedImageUrls ==
  {DirectImageUrl(r) : r \in ImageResults} \cup {StatusImageUrl(r) : r \in ImageStatusResults}

\* C18: the image URL of a video-generation request is that of the user's
\* upload: it is never the URL of an image generated from the theme's text.
C18_VideoFromUpload ==
  \A i \in CallsTo("video_generation") : calls[i].a \notin GeneratedImageUrls

\* the place of a provider request in the chain of POST /api/generate
Rank(endpoint) ==
  CASE endpoint = "image_generation" -> 1
    [] endpoint = "query/image_generation" -> 2
    [] endpoint = "lyrics_generation" -> 3
    [] endpoint = "music_generation" -> 4
    [] endpoint = "video_generation" -> 5

\* the requests of the log were issued one after the other, each after the one
\* before it had settled, in the order image, lyrics, music, video
Sequential(log) ==
  /\ \A i \in 1..Len(log) : log[i].outcome = "pending" => i = Len(log)
  /\ \A i, j \in 1..Len(log) :
       i < j => /\ Rank(log[i].endpoint) <= Rank(log[j].endpoint)
                /\ Rank(log[i].endpoint) = Rank(log[j].endpoint)
                     => log[i].endpoint = "query/image_generation"
  /\ log # <<>> => log[1].endpoint = "image_generation"
  /\ \A j \in 1..Len(log) :
       /\ log[j].endpoint = "lyrics_generation" => log[1].outcome = "resolved"
       /\ log[j].endpoint = "music_generation" =>
            j > 1 /\ log[j - 1].endpoint = "lyrics_generation"
       /\ log[j].endpoint = "video_generation" =>
            /\ j > 1
            /\ log[j - 1].endpoint = "music_generation"
            /\ log[j - 1].outcome = "resolved"

\* C19: the provider requests of one POST /api/generate are sent one at a
\* time in the order image, lyrics, music, video, each after the one before it
\* has settled, and the music request carries the text the lyrics step
\* produced: the provider's lyrics, or the built-in text when it sent none or
\* the request failed.
C19_SequentialChain ==
  [][/\ Sequential(calls')
     /\ \A r \in LyricsResults \cup Failures :
          GenerateLyricsDone(r) =>
            LET text == IF r.ok /\ r.lyrics \notin {Undef, Str("")} THEN r.lyrics
                        ELSE Str("[Intro] (Oh~) This is our story now ... Our story begins now...")
            IN /\ calls'[Len(calls')].endpoint = "music_generation"
               /\ calls'[Len(calls')].b = text
               /\ gen'.lyrics = text
     /\ \A i \in 1..Len(calls') :
          calls'[i].endpoint = "music_generation" =>
            /\ gen'.pc # "idle" => calls'[i].b = gen'.lyrics
            /\ genRes'.code = 200 => calls'[i].b = genRes'.lyrics]_vars

C19_Witness ==
  /\ Len(calls) = 4
  /\ calls[3].endpoint = "music_generation"
  /\ calls[3].b = Str("la la la")
  /\ calls[4].endpoint = "video_generation"
  /\ calls[4].outcome = "resolved"
  /\ genRes.code = 200
  /\ genRes.lyrics = Str("la la la")

\* C20: when the music step is over, a video-generation request is sent
\* exactly if the image step left an image URL, and it carries that URL;
\* without an image URL no video request is sent, no task is registered and
\* the answer is 200 'completed' without a task id.
C20_VideoOnlyWithImage ==
  [][/\ \A r \in MusicResults :
          GenerateMusicDone(r) =>
            IF gen.imageUrl \in {Null, Undef, Str("")}
              THEN /\ Len(calls') = Len(calls)
                   /\ tasks' = tasks
                   /\ heap' = heap
                   /\ gen'.pc = "idle"
                   /\ genRes'.code = 200
                   /\ genRes'.status = Str("completed")
                   /\ genRes'.taskId = Null
              ELSE /\ Len(calls') = Len(calls) + 1
                   /\ calls'[Len(calls')].endpoint = "video_generation"
                   /\ calls'[Len(calls')].a = gen.imageUrl
     /\ \A i \in 1..Len(calls') :
          calls'[i].endpoint = "video_generation" =>
            /\ calls'[i].a \notin {Null, Undef, Str("")}
            /\ calls'[i - 1].endpoint = "music_generation"
     /\ (genRes'.code = 200 /\ \A i \in 1..Len(calls') : calls'[i].endpoint # "video_generation")
          => /\ genRes'.status = Str("completed")
             /\ genRes'.taskId = Null
             /\ genRes'.imageUrl \in {Null, Undef, Str("")}
             /\ tasks' = tasks]_vars

C20_Witness ==
  /\ genRes.code = 200
  /\ genRes.status = Str("completed")
  /\ genRes.taskId = Null
  /\ genRes.imageUrl = Undef
  /\ Len(calls) = 3
  /\ calls[3].endpoint = "music_generation"
  /\ calls[3].outcome = "resolved"
  /\ DOMAIN tasks = {}

(* ------------------------ the client's progress ------------------------ *)
\* a run of handleGenerate ends in its catch block in this step
RunEndsWithError == cl.isGenerating /\ ~cl'.isGenerating /\ cl'.error # Null

\* C21: whenever the answer to POST /api/generate arrives with an OK status
\* code, the client's progress steps 1 and 2 are both 'completed' after the
\* step, whether the answer's status is 'processing' or 'completed'.
C21_StepsOneTwoCompleted ==
  [][(cl.pc = "fetchGenerate" /\ cl'.pc # "fetchGenerate" /\ ResponseOk(genRes)
        /\ cl'.error = Null)
       => /\ cl'.progress[1] = "completed"
          /\ cl'.progress[2] = "completed"]_vars

\* C22: when a run of handleGenerate ends with an error, every progress step
\* that was 'processing' at that moment is 'error' afterwards, and no step is
\* left 'processing'.
C22_ProcessingBecomesError ==
  [][RunEndsWithError
       => /\ \A i \in Steps : cl.progress[i] = "processing" => cl'.progress[i] = "error"
          /\ \A i \in Steps : cl'.progress[i] # "processing"]_vars

\* C23: the polling loop has no bound on attempts: a status answer that
\* reports neither 'success' nor 'failed' (a 404 or 500 answer included) puts
\* the client back at the timer, from where the next poll is made however
\* many were made before (once the server is done with a poll that the client
\* gave up), and the loop is left only on a 'success' answer, on a 'failed'
\* answer or with a thrown error.
C23_PollsUntilSuccessOrFailure ==
  [][/\ (cl.pc = "fetchStatus" /\ cl'.pc # "fetchStatus" /\ ~RunEndsWithError
           /\ statusRes.res.status \notin {Str("success"), Str("failed")})
          => /\ cl'.pc = "timer"
             /\ cl'.isGenerating
             /\ cl'.data = cl.data
     /\ (cl.pc = "timer" /\ cl'.pc # "timer") => cl'.pc = "fetchStatus"
     /\ (cl.pc \in {"timer", "fetchStatus"} /\ cl'.pc = "idle")
          => \/ cl.pc = "fetchStatus" /\ statusRes.res.status = Str("success")
                  /\ cl'.result # Null
             \/ cl.pc = "fetchStatus" /\ statusRes.res.status = Str("failed")
                  /\ RunEndsWithError
             \/ RunEndsWithError /\ cl'.error = Str("Failed to fetch")
     /\ (cl'.pc = "timer" /\ st'["c1"].pc = "idle") => (ENABLED PollTimer)']_vars

\* a poll was answered 404 and the client is polling again
C23_Witness ==
  /\ cl.pc = "timer"
  /\ cl.isGenerating
  /\ statusRes.res.code = 404
  /\ cl.data.taskId = Num("7")

\* C24: step 4 becomes 'completed' in the very step in which step 3 does, and
\* in every client state that shows a result all four progress steps are
\* 'completed'.
C24_ResultMeansAllCompleted ==
  [][/\ (cl.progress[3] # "completed" /\ cl'.progress[3] = "completed")
          => /\ cl'.progress[4] = "completed"
             /\ cl'.result # Null
     /\ cl'.result # Null => \A i \in Steps : cl'.progress[i] = "completed"]_vars

\* the video is shown after a completed run
C24_Witness ==
  /\ cl.result # Null
  /\ cl.result.videoUrl = Str("v1")
  /\ ~cl.isGenerating
  /\ cl.progress[3] = "completed"
  /\ cl.progress[4] = "completed"

\* a GET /api/status request of the client reaches the server in this step
PollArrives ==
  \/ st["c1"].pc = "idle" /\ st'["c1"].pc = "queryVideoStatus"
  \/ st' = st /\ statusRes' # statusRes /\ statusRes'.res.code = 404

\* C25: a GET /api/status request for a registered task makes exactly one
\* provider video-status query, whose answer ends the handler, and the client
\* sends a status poll only when it is not waiting for the answer to an
\* earlier one: at most one query per task is outstanding per poll.
C25_OneQueryPerPoll ==
  [][/\ PollArrives
          => /\ cl.pc = "timer"
             /\ cl'.pc = "fetchStatus"
             /\ st["c1"].pc = "idle"
             /\ IF Str(PathOf(cl.data.taskId)) \in DOMAIN tasks
                  THEN /\ st'["c1"].pc = "queryVideoStatus"
                       /\ st'["c1"].taskId = PathOf(cl.data.taskId)
                       /\ statusRes' = statusRes
                  ELSE st' = st
     /\ (st["c1"].pc = "queryVideoStatus" /\ st'["c1"] # st["c1"])
          => /\ st'["c1"] = IdleSt
             /\ statusRes'.taskId = st["c1"].taskId
             /\ statusRes'.res.code \in {200, 500}
     /\ cl.pc = "fetchStatus" => st'["c1"].pc \in {st["c1"].pc, "idle"}
     /\ st'["c2"] = IdleSt]_vars

\* the first poll was answered 'processing' and the second poll's query is
\* outstanding
C25_Witness ==
  /\ cl.pc = "fetchStatus"
  /\ st["c1"].pc = "queryVideoStatus"
  /\ st["c1"].taskId = "t1"
  /\ statusRes.taskId = "t1"
  /\ statusRes.res.status = Str("processing")

(* --------------------- concurrent status requests ---------------------- *)
\* what GET /api/status does to task object t of heap h, and what it answers,
\* when it runs alone from lookup to response with the provider's answer r
SerialStatus(h, t, r) ==
  IF ~r.ok
    THEN [heap |-> h,
          res |-> [NoRes EXCEPT !.code = 500,
                                !.error = Str(IF r.message = "" THEN "Failed to query status"
                                                                ELSE r.message)]]
  ELSE IF r.status = "success"
    THEN [heap |-> [h EXCEPT ![t] = [h[t] EXCEPT !.status = "success",
                                                 !.videoUrl = r.video_url]],
          res |-> [NoRes EXCEPT !.code = 200, !.status = Str("success"),
                                !.videoUrl = r.video_url]]
  ELSE IF r.status = "failed"
    THEN [heap |-> [h EXCEPT ![t] = [h[t] EXCEPT !.status = "failed"]],
          res |-> [NoRes EXCEPT !.code = 200, !.status = Str("failed"),
                                !.error = Str("Video generation failed")]]
  ELSE [heap |-> h, res |-> [NoRes EXCEPT !.code = 200, !.status = Str("processing")]]

C27_ImageFailureSurfaced ==
  [][\A r \in ImageStatusResults :
       (r.status = "failed" /\ QueryImageStatusDone(r))
         => /\ gen'.pc = "idle"
            /\ genRes'.code # 0
            /\ genRes'.status # Str("processing")
            /\ Truthy(genRes'.error)]_vars

(* --------------------------- the uploaded file ------------------------- *)
\* the uploads that the upload middleware lets through, and no upload
AcceptedFiles == {f \in Files : ~UploadRejected(f)}

C29_RegisteredNeverNotFound ==
  [][/\ DOMAIN tasks \subseteq DOMAIN tasks'
     /\ (statusCount' = statusCount + 1 /\ st' = st /\ statusRes'.res.code = 404)
          => \A k \in DOMAIN tasks : PathOf(k) # statusRes'.taskId]_vars

\* C30: the task id of every 'processing' answer of POST /api/generate, put
\* into the URL path as the client does, is a key of the registry, so that
\* GET /api/status finds the task, whatever the provider returned as the id.
C30_ReturnedIdResolvable ==
  (genRes.code = 200 /\ genRes.status = Str("processing"))
    => /\ Str(PathOf(genRes.taskId)) \in DOMAIN tasks
       /\ StoredTask(Str(PathOf(genRes.taskId))).status \in {"processing", "success", "failed"}

(* ------------------- errors of the image-status query ------------------ *)
\* C31: a rejected image-status query of POST /api/generate sends no answer
\* and ends nothing: it uses up one of the 5 attempts, and the handler goes on
\* to the timer of the next attempt or, after the fifth, to the fallback on
\* the direct response and the lyrics.
C31_ImageQueryErrorSwallowed ==
  [][\A r \in Failures :
       QueryImageStatusDone(r)
         => /\ genRes' = genRes
            /\ genRes'.code = 0
            /\ tasks' = tasks
            /\ gen'.i = gen.i + 1
            /\ gen'.i <= MaxImagePolls
            /\ IF gen'.i < MaxImagePolls
                 THEN /\ gen'.pc = "timer"
                      /\ gen'.imageUrl = gen.imageUrl
                      /\ Len(calls') = Len(calls)
                 ELSE /\ gen'.pc = "generateLyrics"
                      /\ gen'.imageUrl =
                           Or(gen.imageResult.data_image_url, gen.imageResult.image_image_url)
                      /\ calls'[Len(calls')].endpoint = "lyrics_generation"]_vars

\* a status query was rejected, the next one succeeded and the request was
\* answered 200
C31_Witness ==
  LET Q == CallsTo("query/image_generation")
  IN /\ Cardinality(Q) = 2
     /\ \E i \in Q : calls[i].outcome = "retry"
     /\ \E i \in Q : calls[i].outcome = "success"
     /\ genRes.code = 200

(* --------------------- the client's run and result --------------------- *)
\* a run of handleGenerate ends in this step
RunEnds == cl.pc # "idle" /\ cl'.pc = "idle"

\* C32: isGenerating is true exactly while a run of handleGenerate is in
\* flight; the step that ends a run, by showing the result, on a 'completed'
\* answer, on a 'failed' status or on a thrown error, leaves it false, and a
\* run that ended by a throw (a non-OK answer to /api/generate, a 'failed'
\* status, a rejected fetch) leaves an error message.
C32_GeneratingOnlyInFlight ==
  [][/\ cl'.isGenerating <=> cl'.pc # "idle"
     /\ cl'.isGenerating => (cl.isGenerating \/ cl.pc = "idle")
     /\ RunEnds
          => /\ ~cl'.isGenerating
             /\ \/ cl'.result # Null
                \/ /\ cl.pc = "fetchGenerate"
                   /\ ResponseOk(genRes)
                   /\ genRes.status # Str("processing")
                   /\ cl'.result = Null
                \/ /\ cl'.result = Null
                   /\ cl'.error # Null
                   /\ cl'.error.t = "string"
                   /\ cl'.error.v # ""
     /\ (RunEnds /\ cl.pc = "fetchGenerate" /\ ~ResponseOk(genRes))
          => cl'.error # Null
     /\ (RunEnds /\ cl.pc = "fetchStatus" /\ cl'.result = Null)
          => cl'.error # Null]_vars

\* a run ended on a 'failed' status: the button is released and the message
\* is shown
C32_Witness ==
  /\ cl.pc = "idle"
  /\ ~cl.isGenerating
  /\ cl.error = Str("Video generation failed")
  /\ statusRes.res.status = Str("failed")
  /\ cl.result = Null

====
